---- MODULE Spec2Model ----
(***************************************************************************)
(* Model of the Chargeamps Home Assistant integration:                     *)
(*   custom_components/chargeamps/__init__.py  (async_setup, handler)      *)
(*   custom_components/chargeamps/sensor.py    (entity adapters)           *)
(*                                                                         *)
(* The model follows the two files as they are: a method they call but do  *)
(* not define raises AttributeError where it is called, and a constructor  *)
(* that raises builds no object.  async_setup_platform adds no entity, so  *)
(* the host polls none: ChargeampsHandler.update_data is called by tasks   *)
(* that hold the handler, the "callers" of the model.  A caller either     *)
(* awaits update_data and nothing more, or is the async_update of a        *)
(* ChargeampsPowerSensor built by a direct call of the class.              *)
(*                                                                         *)
(* All coroutines run on one asyncio event loop: a step of the model is    *)
(* the code a task runs between two suspension points (awaits of a vendor  *)
(* HTTP call).  Python dicts are functions whose DOMAIN is the key set;    *)
(* an Optional value is a sequence of length 0 (None) or 1.                *)
(***************************************************************************)
EXTENDS Integers, Sequences, FiniteSets, TLC

\* ------------------------------------------------------------------ bounds
MaxTime == 70        \* the clock stops advancing here (seconds)
TickStep == 10       \* granularity of the clock (seconds)
MaxFetches == 3      \* vendor status fetches issued by update_data in a run
MaxCalls == 2        \* service calls made in a run

\* ------------------------------------------------------- program constants
\* MIN_TIME_BETWEEN_UPDATES = timedelta(seconds=30)
MIN_TIME_BETWEEN_UPDATES == 30
\* self.default_connector_id = 1
DefaultConnectorId == 1

\* --------------------------------------------------- the vendor's account
\* The charge points the vendor account holds, and their connectors.
CPs == {"A", "B"}
ConnectorsOf(cp) == IF cp = "A" THEN {1, 2} ELSE {1}
ConnectorIds == {1, 2}

\* The ascending sequence of a set of connector ids.
RECURSIVE SeqOfSet(_)
SeqOfSet(S) ==
    IF S = {} THEN <<>>
    ELSE LET m == CHOOSE x \in S : \A y \in S : x <= y
         IN  <<m>> \o SeqOfSet(S \ {m})

\* ChargePoint as get_chargepoints() returns it.
ChargePointInfo(cp) ==
    [id |-> cp,
     name |-> "cp",
     type |-> "HALO",
     connectors |-> [i \in 1..Cardinality(ConnectorsOf(cp)) |->
                       [charge_point_id |-> cp,
                        connector_id |-> SeqOfSet(ConnectorsOf(cp))[i],
                        type |-> "Type2"]]]

\* Two payloads a status response can carry for a connector.  kWh values are
\* in units of 0.0001 kWh; the second lies half way between two thousandths.
Variants == {1, 2}
Measurements(v) ==
    IF v = 1 THEN <<>>
    ELSE <<[phase |-> "L1", current |-> 10, voltage |-> 230],
           [phase |-> "L2", current |-> 0, voltage |-> 230],
           [phase |-> "L3", current |-> 0, voltage |-> 230]>>

\* ChargePointConnectorStatus; "fetch" is the identity of the response object
\* it belongs to (the number of the get_chargepoint_status call).
ConnectorStatus(cp, c, v, f) ==
    [charge_point_id |-> cp,
     connector_id |-> c,
     status |-> IF v = 1 THEN "Available" ELSE "Charging",
     total_consumption_kwh |-> IF v = 1 THEN 12344 ELSE 12345,
     measurements |-> Measurements(v),
     fetch |-> f]

\* ChargePointStatus listing the connectors of L, in ascending order.
ChargePointStatus(cp, L, v, f) ==
    [id |-> cp,
     connector_statuses |-> [i \in 1..Cardinality(L) |->
                               ConnectorStatus(cp, SeqOfSet(L)[i], v, f)],
     fetch |-> f]

\* What the vendor may answer to get_chargepoint_status(cp), call number f:
\* any non-empty choice of the charge point's connectors, either payload.
Responses(cp, f) ==
    {ChargePointStatus(cp, L, v, f) :
        L \in (SUBSET ConnectorsOf(cp)) \ {{}}, v \in Variants}

VARIABLES
    now,              \* utcnow(), seconds
    setup,            \* async_setup: "boot", "validating", "discovering",
                      \* "updating", "ok" (returned True), "failed"
    checking,         \* place in the list of the id being validated (0: none)
    charge_point_ids, \* charge_point_ids of async_setup, then of the handler
    handler,          \* hass.data[DOMAIN_DATA] holds "handler"
    services,         \* the three services are registered
    platform,         \* sensor platform setup: "none", "scheduled", "raised", "done"
    validated,        \* ids whose setup-time status call succeeded
    info,             \* hass.data[DOMAIN_DATA]["info"]
    chargepoint,      \* hass.data[DOMAIN_DATA]["chargepoint"]
    connector,        \* hass.data[DOMAIN_DATA]["connector"]
    throttle,         \* host |-> time of the last call Throttle let through
    trig,             \* history: <<>> or <<[cp, at]>>, the last call let through
    fetchCount,       \* get_chargepoint_status calls issued by update_data
    errors,           \* "Could not update data" lines logged
    entities,         \* the entities handed to async_add_entities
    callers,          \* the tasks and sensors that call update_data
    pc,               \* caller |-> "new", "due", "fetching", "done", "raised"
    awaiting,         \* caller |-> number of the fetch it awaits (0: none)
    atCall,           \* history: caller |-> the cache maps when the call it
                      \* awaits was made (<<>>: it awaits none)
    st,               \* sensor |-> _state, <<>> for None
    attrs,            \* sensor |-> _attributes
    interviewed,      \* sensor |-> _interviewed
    vendor,           \* <<cp, connector>> |-> the vendor's connector settings
    calls,            \* the service calls made, in order of arrival
    seen              \* history: <<>> or <<what the last read of the cache got>>

vars == <<now, setup, checking, charge_point_ids, handler, services, platform,
          entities, validated, info, chargepoint, connector, throttle, trig,
          fetchCount, errors, callers, pc, awaiting, atCall, st, attrs,
          interviewed, vendor, calls, seen>>

setupVars == <<setup, checking, charge_point_ids, handler, services, platform,
               entities, validated, info>>
cacheVars == <<chargepoint, connector>>
entityVars == <<callers, pc, awaiting, atCall, st, attrs, interviewed>>
ctlVars == <<vendor, calls>>

\* d[k] = v on a dict.
Put(d, k, v) == [x \in DOMAIN d \cup {k} |-> IF x = k THEN v ELSE d[x]]
\* d.get(k)
Get(d, k) == IF k \in DOMAIN d THEN <<d[k]>> ELSE <<>>
EmptyDict == [x \in {} |-> 0]
\* The Optional values over S.
Opt(S) == {<<>>} \cup {<<x>> : x \in S}

\* ------------------------------------------------------------ the throttle
\* homeassistant.util.Throttle wraps update_data.  The wrapper keeps one time
\* stamp per host object and decorated method; the host of a method call is
\* its first argument, the handler, whatever the charge point asked for.
HandlerHost == "handler"

\* Mutant: the stamp is kept per charge point asked for.
ThrottleHost_PerId(self_, charge_point_id) == charge_point_id

ThrottleHost(self_, charge_point_id) == self_

\* Mutant: a call exactly min_time after the stamp is let through.
ThrottlePasses_AtLeast(th, host, t) ==
    IF host \notin DOMAIN th THEN TRUE
    ELSE t - th[host] >= MIN_TIME_BETWEEN_UPDATES

\* The wrapper lets a call through when the method was never called or more
\* than min_time has passed since the stamp.
ThrottlePasses(th, host, t) ==
    IF host \notin DOMAIN th THEN TRUE
    ELSE t - th[host] > MIN_TIME_BETWEEN_UPDATES

\* Mutant: the wrapper forgets to stamp.
ThrottleStamp_Never(th, host, t) == th

\* The stamp is taken when the wrapper has called the method, which for a
\* coroutine function is before its body runs: it does not wait for the
\* fetch, nor learn its outcome.
ThrottleStamp(th, host, t) == Put(th, host, t)

\* ------------------------------------------------------------ the handler
\* ChargeampsHandler.get_chargepoint_info
get_chargepoint_info(inf, charge_point_id) == Get(inf, charge_point_id)

\* ChargeampsHandler.get_connector_status
get_connector_status(conn, charge_point_id, connector_id) ==
    Get(conn, <<charge_point_id, connector_id>>)

\* Mutant: the loop keys an entry by its place in the list.
RECURSIVE StoreConnectors_ByPosition(_, _, _, _)
StoreConnectors_ByPosition(conn, charge_point_id, statuses, i) ==
    IF i > Len(statuses) THEN conn
    ELSE StoreConnectors_ByPosition(
            Put(conn, <<charge_point_id, i>>, statuses[i]),
            charge_point_id, statuses, i + 1)

\* Mutant: the loop stops before the last connector status.
RECURSIVE StoreConnectors_SkipsLast(_, _, _, _)
StoreConnectors_SkipsLast(conn, charge_point_id, statuses, i) ==
    IF i >= Len(statuses) THEN conn
    ELSE StoreConnectors_SkipsLast(
            Put(conn, <<charge_point_id, statuses[i].connector_id>>, statuses[i]),
            charge_point_id, statuses, i + 1)

\* The loop of update_data over status.connector_statuses, from entry i on.
RECURSIVE StoreConnectors(_, _, _, _)
StoreConnectors(conn, charge_point_id, statuses, i) ==
    IF i > Len(statuses) THEN conn
    ELSE StoreConnectors(
            Put(conn, <<charge_point_id, statuses[i].connector_id>>, statuses[i]),
            charge_point_id, statuses, i + 1)

\* Mutant: the task is suspended inside the loop, after the first connector.
StoreStatus_Torn(cpm, conn, charge_point_id, status) ==
    [chargepoint |-> Put(cpm, charge_point_id, status),
     connector |-> Put(conn,
                       <<charge_point_id, status.connector_statuses[1].connector_id>>,
                       status.connector_statuses[1])]

\* update_data after the await, the fetch having succeeded: the cache maps.
StoreStatus(cpm, conn, charge_point_id, status) ==
    [chargepoint |-> Put(cpm, charge_point_id, status),
     connector |-> StoreConnectors(conn, charge_point_id,
                                   status.connector_statuses, 1)]

\* Mutant: the handler of the exception drops what is cached for the id.
FailedStore_Drops(cpm, conn, charge_point_id) ==
    [chargepoint |-> [x \in DOMAIN cpm \ {charge_point_id} |-> cpm[x]],
     connector |-> [k \in {y \in DOMAIN conn : y[1] # charge_point_id} |-> conn[k]]]

\* update_data after the await, the fetch having raised: the exception is
\* caught and logged, the cache maps stay as they are.
FailedStore(cpm, conn, charge_point_id) ==
    [chargepoint |-> cpm, connector |-> conn]

\* ------------------------------------------------------ entity adapters
\* floor(log2(k / 10000)) for k > 0: the binary exponent of the kWh value k
\* (units of 0.0001 kWh) as a float.
RECURSIVE BinaryExponent(_)
BinaryExponent(k) ==
    IF k >= 20000 THEN BinaryExponent(k \div 2) + 1
    ELSE IF k < 10000 THEN BinaryExponent(2 * k) - 1
    ELSE 0

\* 2^e modulo m.
RECURSIVE PowerOfTwoMod(_, _)
PowerOfTwoMod(e, m) == IF e = 0 THEN 1 % m ELSE (2 * PowerOfTwoMod(e - 1, m)) % m

\* round(x, 3) of a kWh value held in units of 0.0001 kWh.  x is the binary64
\* float nearest to k / 10000, and round() rounds the exact value of that
\* float to the nearest thousandth.  The float is m / 2^e with
\* m = k * 2^e / 10000 rounded to an integer of 53 bits, so it lies below
\* k / 10000 when the remainder of k * 2^e by 10000 is less than 5000 and
\* above it when it is more: that decides a k half way between two
\* thousandths.  Only a float that is exactly half way goes to the even
\* thousandth.
Round3(k) ==
    LET r == k % 10
        lo == k - r
        e == 52 - BinaryExponent(k)
        rem == ((k % 20000) * PowerOfTwoMod(e, 20000)) % 20000
    IN  IF r < 5 THEN lo
        ELSE IF r > 5 THEN lo + 10
        ELSE IF rem % 10000 = 0
             THEN (IF (lo \div 10) % 2 = 0 THEN lo ELSE lo + 10)
        ELSE IF rem % 10000 < 5000 THEN lo
        ELSE IF rem % 10000 > 5000 THEN lo + 10
        ELSE IF rem = 5000 THEN lo ELSE lo + 10

\* ChargeampsEntity.interview: get_chargepoint_info is read, then
\* self.handler.get_connector_info, which ChargeampsHandler does not define:
\* AttributeError before either attribute is written and before
\* _interviewed = True.
Interview(inf, e, at) ==
    [attrs |-> at, interviewed |-> FALSE, pc |-> "raised"]

\* ChargeampsSensor.async_update once update_data has returned: without a
\* cached status it returns; with one it writes the state and the rounded
\* energy and, not interviewed yet, awaits interview(), which raises.
SensorRead(inf, conn, e, stv, at, iv) ==
    LET status == get_connector_status(conn, e.cp, e.conn)
    IN  IF status = <<>>
        THEN [st |-> stv, attrs |-> at, interviewed |-> iv, pc |-> "done"]
        ELSE LET a1 == Put(at, "total_consumption_kwh",
                           Round3(status[1].total_consumption_kwh))
                 i == Interview(inf, e, a1)
             IN  IF iv
                 THEN [st |-> <<status[1].status>>, attrs |-> a1,
                       interviewed |-> iv, pc |-> "done"]
                 ELSE [st |-> <<status[1].status>>, attrs |-> i.attrs,
                       interviewed |-> i.interviewed, pc |-> i.pc]

\* ChargeampsPowerSensor.async_update once update_data has returned: it
\* evaluates self.handler.get_connector_measurements, which ChargeampsHandler
\* does not define: AttributeError at sensor.py:169, whatever is cached, with
\* nothing written.  Neither branch that follows is reached.
PowerRead(inf, conn, e, stv, at, iv) ==
    [st |-> stv, attrs |-> at, interviewed |-> iv, pc |-> "raised"]

\* ChargeampsTotalEnergy.async_update once update_data has returned: it
\* evaluates self.handler.get_chargepoint_total_energy, which
\* ChargeampsHandler does not define: AttributeError at sensor.py:142, before
\* _state is assigned.
EnergyRead(inf, cpm, e, stv, at, iv) ==
    [st |-> stv, attrs |-> at, interviewed |-> iv, pc |-> "raised"]

\* A task that awaits update_data and nothing more: the await returns None
\* and the task ends.
AwaitReturns(e, stv, at, iv) ==
    [st |-> stv, attrs |-> at, interviewed |-> iv, pc |-> "done"]

\* What a caller runs once "await update_data(...)" has returned: the rest
\* of its async_update for a sensor, nothing for a task.
EntityRead(inf, cpm, conn, e, stv, at, iv) ==
    IF e.kind = "call" THEN AwaitReturns(e, stv, at, iv)
    ELSE IF e.kind = "status" THEN SensorRead(inf, conn, e, stv, at, iv)
    ELSE IF e.kind = "power" THEN PowerRead(inf, conn, e, stv, at, iv)
    ELSE EnergyRead(inf, cpm, e, stv, at, iv)


\* ------------------------------------------------------------ async_setup
\* The lists get_chargepoints() may return: the account's charge points in
\* some order, or a part of them.
RECURSIVE Perms(_)
Perms(S) ==
    IF S = {} THEN {<<>>}
    ELSE UNION {{<<x>> \o p : p \in Perms(S \ {x})} : x \in S}
IdLists == UNION {Perms(S) : S \in SUBSET CPs}

Range(seq) == {seq[i] : i \in 1..Len(seq)}

\* Mutant: every charge point fetched is stored.
RECURSIVE UpdateInfo_Unfiltered(_, _, _)
UpdateInfo_Unfiltered(inf, ids, fetched) ==
    IF fetched = <<>> THEN inf
    ELSE UpdateInfo_Unfiltered(
            Put(inf, fetched[1], ChargePointInfo(fetched[1])),
            ids, Tail(fetched))

\* update_info: the info dict after the loop over the charge points fetched.
RECURSIVE UpdateInfo(_, _, _)
UpdateInfo(inf, ids, fetched) ==
    IF fetched = <<>> THEN inf
    ELSE UpdateInfo(
            IF fetched[1] \in Range(ids)
            THEN Put(inf, fetched[1], ChargePointInfo(fetched[1]))
            ELSE inf,
            ids, Tail(fetched))

\* Mutant: the default is the last id of the list.
default_charge_point_id_Last(ids) == ids[Len(ids)]

\* ChargeampsHandler.__init__: the default charge point of the services.
default_charge_point_id(ids) == ids[1]

\* ---------------------------------------------------------------- entities
\* The constructor of an entity class, called with (hass, name,
\* charge_point_id, connector_id).  ChargeampsPowerSensor defines none:
\* ChargeampsEntity.__init__ runs and the object is built.
\* ChargeampsSensor.__init__ and ChargeampsTotalEnergy.__init__ hand self
\* twice to ChargeampsEntity.__init__: TypeError, and no object.
EntityConstructs(kind) == kind = "power"

\* async_setup_platform: for the first tracked charge point it reads cp_info
\* (cp_info.name raises AttributeError on None) and calls
\* ChargeampsTotalEnergy(...), which raises TypeError.  The loop ends there:
\* async_add_entities is not reached and no entity is added.  With no
\* tracked charge point the loop would not run and the empty list be added.
PlatformEntities(inf, ids) ==
    IF Len(ids) = 0 THEN [sensors |-> {}, raised |-> FALSE]
    ELSE [sensors |-> {}, raised |-> TRUE]

\* ----------------------------------------------------------------- callers
\* The tasks of the runs that await handler.update_data(cp) and nothing
\* more: two for A, one for B ("conn" tells the tasks of a charge point
\* apart).
Callers ==
    {[kind |-> "call", cp |-> "A", conn |-> 1],
     [kind |-> "call", cp |-> "A", conn |-> 2],
     [kind |-> "call", cp |-> "B", conn |-> 1]}

\* The power sensor built by the direct call
\* ChargeampsPowerSensor(hass, name, "A", 1).
PolledPower ==
    {[kind |-> "power", cp |-> "A", conn |-> 1]}

\* Every vendor connector starts "Off" at 6 A.
VendorInit ==
    [k \in {x \in CPs \X ConnectorIds : x[2] \in ConnectorsOf(x[1])} |->
        [charge_point_id |-> k[1], connector_id |-> k[2],
         mode |-> "Off", max_current |-> 6]]

\* Home Assistant has started; async_setup has not run.  The tasks cs have
\* called nothing yet.
Started(cs) ==
    /\ now = 0
    /\ setup = "boot"
    /\ checking = 0
    /\ charge_point_ids = <<>>
    /\ handler = FALSE
    /\ services = FALSE
    /\ platform = "none"
    /\ entities = {}
    /\ validated = {}
    /\ info = EmptyDict
    /\ chargepoint = EmptyDict
    /\ connector = EmptyDict
    /\ throttle = EmptyDict
    /\ trig = <<>>
    /\ fetchCount = 0
    /\ errors = 0
    /\ callers = cs
    /\ pc = [e \in cs |-> "new"]
    /\ awaiting = [e \in cs |-> 0]
    /\ atCall = [e \in cs |-> <<>>]
    /\ st = [e \in cs |-> <<>>]
    /\ attrs = [e \in cs |-> EmptyDict]
    /\ interviewed = [e \in cs |-> FALSE]
    /\ vendor = VendorInit
    /\ calls = <<>>
    /\ seen = <<>>

Init == Started(Callers)

\* async_setup up to its first await.
\*   dom  the configuration holds the chargeamps key
\*   cfg  its chargepoints: <<>> when the key is absent, else <<list>>
\* Without the chargeamps key it returns True with nothing set up; with an
\* empty list it returns False; with a list it awaits the status of the first
\* id; without one it awaits get_chargepoints.
SetupBegin(dom, cfg) ==
    /\ setup = "boot"
    /\ IF ~dom
       THEN setup' = "ok" /\ UNCHANGED <<checking, charge_point_ids>>
       ELSE IF cfg = <<>>
       THEN setup' = "discovering" /\ UNCHANGED <<checking, charge_point_ids>>
       ELSE IF Len(cfg[1]) = 0
       THEN setup' = "failed" /\ UNCHANGED <<checking, charge_point_ids>>
       ELSE setup' = "validating" /\ checking' = 1 /\ charge_point_ids' = cfg[1]
    /\ UNCHANGED <<now, handler, services, platform, entities, validated, info, cacheVars,
                   throttle, trig, fetchCount, errors, entityVars, ctlVars, seen>>

\* get_chargepoint_status of the id being validated returns (ok) or raises:
\* the exception is caught and logged and the loop goes on, the id staying in
\* the list.  After the last id the handler is created and stored with the
\* empty caches, and update_info is awaited.
ValidationReturns(ok) ==
    /\ setup = "validating"
    /\ validated' = IF ok THEN validated \cup {charge_point_ids[checking]} ELSE validated
    /\ IF checking < Len(charge_point_ids)
       THEN checking' = checking + 1 /\ UNCHANGED <<setup, handler>>
       ELSE checking' = 0 /\ handler' = TRUE /\ setup' = "updating"
    /\ UNCHANGED <<now, charge_point_ids, services, platform, entities, info, cacheVars,
                   throttle, trig, fetchCount, errors, entityVars, ctlVars, seen>>

\* get_chargepoints of the discovery returns disc[1] or raises (<<>>): the
\* exception leaves async_setup.  With no charge point discovered
\* ChargeampsHandler.__init__ raises at charge_point_ids[0].  Else the
\* handler is created and stored and update_info is awaited.
DiscoveryReturns(disc) ==
    /\ setup = "discovering"
    /\ IF disc = <<>>
       THEN setup' = "failed" /\ UNCHANGED <<charge_point_ids, validated, handler>>
       ELSE IF Len(disc[1]) = 0
       THEN setup' = "failed" /\ UNCHANGED <<charge_point_ids, validated, handler>>
       ELSE /\ setup' = "updating"
            /\ charge_point_ids' = disc[1]
            /\ validated' = Range(disc[1])
            /\ handler' = TRUE
    /\ UNCHANGED <<now, checking, services, platform, entities, info, cacheVars,
                   throttle, trig, fetchCount, errors, entityVars, ctlVars, seen>>

\* get_chargepoints of update_info returns upd[1] or raises (<<>>): the
\* exception leaves async_setup, the handler staying stored.  Else the info
\* is stored, the services are registered, the load of the sensor platform
\* is scheduled and async_setup returns True.
UpdateInfoReturns(upd) ==
    /\ setup = "updating"
    /\ IF upd = <<>>
       THEN setup' = "failed" /\ UNCHANGED <<info, services, platform>>
       ELSE /\ setup' = "ok"
            /\ info' = UpdateInfo(info, charge_point_ids, upd[1])
            /\ services' = TRUE
            /\ platform' = "scheduled"
    /\ UNCHANGED <<now, checking, charge_point_ids, handler, entities, validated, cacheVars,
                   throttle, trig, fetchCount, errors, entityVars, ctlVars, seen>>

\* The task that loads the sensor platform runs async_setup_platform.
PlatformSetup ==
    /\ platform = "scheduled"
    /\ LET r == PlatformEntities(info, charge_point_ids)
       IN  /\ platform' = IF r.raised THEN "raised" ELSE "done"
           /\ entities' = entities \cup r.sensors
    /\ UNCHANGED <<now, setup, checking, charge_point_ids, handler, services,
                   validated, info, cacheVars, throttle, trig, fetchCount, errors,
                   entityVars, ctlVars, seen>>

\* The direct call ChargeampsPowerSensor(hass, name, e.cp, e.conn), or of
\* another entity class: ChargeampsEntity.__init__ reads the handler from
\* hass.data (a KeyError before async_setup has stored it) and sets
\* _state = None, _attributes = {} and _interviewed = False.  The object
\* built is not handed to async_add_entities: what updates it is its caller.
Construct(e) ==
    /\ handler
    /\ e \notin callers
    /\ EntityConstructs(e.kind)
    /\ callers' = callers \cup {e}
    /\ pc' = [x \in callers \cup {e} |-> IF x = e THEN "new" ELSE pc[x]]
    /\ awaiting' = [x \in callers \cup {e} |-> IF x = e THEN 0 ELSE awaiting[x]]
    /\ atCall' = [x \in callers \cup {e} |-> IF x = e THEN <<>> ELSE atCall[x]]
    /\ st' = [x \in callers \cup {e} |-> IF x = e THEN <<>> ELSE st[x]]
    /\ attrs' = [x \in callers \cup {e} |-> IF x = e THEN EmptyDict ELSE attrs[x]]
    /\ interviewed' = [x \in callers \cup {e} |-> IF x = e THEN FALSE ELSE interviewed[x]]
    /\ UNCHANGED <<now, setupVars, cacheVars, throttle, trig, fetchCount, errors,
                   ctlVars, seen>>

\* ------------------------------------------------------- the update cycle
\* The caller's fields after EntityRead on the cache maps given.
Finish(e, cpm, conn) ==
    LET r == EntityRead(info, cpm, conn, e, st[e], attrs[e], interviewed[e])
    IN  /\ st' = [st EXCEPT ![e] = r.st]
        /\ attrs' = [attrs EXCEPT ![e] = r.attrs]
        /\ interviewed' = [interviewed EXCEPT ![e] = r.interviewed]
        /\ pc' = [pc EXCEPT ![e] = r.pc]
        /\ awaiting' = [awaiting EXCEPT ![e] = 0]
        /\ atCall' = [atCall EXCEPT ![e] = <<>>]
        /\ UNCHANGED callers

\* A caller whose call has ended comes to call again: the task calls
\* update_data once more, the sensor's async_update is called once more.
UpdateDue(e) ==
    /\ pc[e] \in {"done", "raised"}
    /\ pc' = [pc EXCEPT ![e] = "due"]
    /\ UNCHANGED <<now, setupVars, cacheVars, throttle, trig, fetchCount, errors,
                   callers, awaiting, atCall, st, attrs, interviewed, ctlVars, seen>>

\* The calls of the runs: a caller holds the handler, and calls update_data
\* once async_setup has returned, for a tracked charge point.  update_data
\* itself tests neither: it fetches whatever id it is given.
MayCall(e) ==
    /\ setup = "ok"
    /\ handler
    /\ e.cp \in Range(charge_point_ids)
    /\ pc[e] \in {"new", "due"}

\* The call up to the await of the vendor call: Throttle lets the
\* update_data call through, stamps the time, and update_data issues
\* get_chargepoint_status.
UpdateStart(e) ==
    /\ MayCall(e)
    /\ ThrottlePasses(throttle, ThrottleHost(HandlerHost, e.cp), now)
    /\ fetchCount < MaxFetches
    /\ throttle' = ThrottleStamp(throttle, ThrottleHost(HandlerHost, e.cp), now)
    /\ trig' = <<[cp |-> e.cp, at |-> now]>>
    /\ fetchCount' = fetchCount + 1
    /\ pc' = [pc EXCEPT ![e] = "fetching"]
    /\ awaiting' = [awaiting EXCEPT ![e] = fetchCount + 1]
    /\ atCall' = [atCall EXCEPT ![e] = <<[chargepoint |-> chargepoint,
                                          connector |-> connector]>>]
    /\ UNCHANGED <<now, setupVars, cacheVars, errors, callers, st, attrs,
                   interviewed, ctlVars, seen>>

\* A whole call that Throttle answers itself: the stand-in coroutine returns
\* None without suspending, and the caller runs on.
UpdateThrottled(e) ==
    /\ MayCall(e)
    /\ ~ThrottlePasses(throttle, ThrottleHost(HandlerHost, e.cp), now)
    /\ Finish(e, chargepoint, connector)
    /\ UNCHANGED <<now, setupVars, cacheVars, throttle, trig, fetchCount,
                   errors, ctlVars, seen>>

\* The vendor answers: update_data stores the status and its connector
\* statuses and returns, and the caller runs on.
FetchSucceeds(e) ==
    /\ pc[e] = "fetching"
    /\ \E status \in Responses(e.cp, awaiting[e]) :
         LET c == StoreStatus(chargepoint, connector, e.cp, status)
         IN  /\ chargepoint' = c.chargepoint
             /\ connector' = c.connector
             /\ Finish(e, c.chargepoint, c.connector)
    /\ UNCHANGED <<now, setupVars, throttle, trig, fetchCount, errors, ctlVars, seen>>

\* The vendor call raises: update_data logs the error and returns, and the
\* caller runs on.
FetchFails(e) ==
    /\ pc[e] = "fetching"
    /\ errors' = errors + 1
    /\ LET c == FailedStore(chargepoint, connector, e.cp)
       IN  /\ chargepoint' = c.chargepoint
           /\ connector' = c.connector
           /\ Finish(e, c.chargepoint, c.connector)
    /\ UNCHANGED <<now, setupVars, throttle, trig, fetchCount, ctlVars, seen>>

\* Time passes.
Tick ==
    /\ setup = "ok"
    /\ now + TickStep <= MaxTime
    /\ now' = now + TickStep
    /\ UNCHANGED <<setupVars, cacheVars, throttle, trig, fetchCount, errors,
                   entityVars, ctlVars, seen>>

\* ------------------------------------------------------------ the services
\* _SERVICE_MAP
Services == {"set_max_current", "enable", "disable"}

\* The data a service call may carry; <<>> for a key it does not hold.
CallData ==
    [chargepoint : Opt(CPs), connector : Opt({2}), max_current : Opt({16})]

\* param.get("chargepoint", self.default_charge_point_id) and
\* param.get("connector", self.default_connector_id)
ServiceTarget(data, ids) ==
    [charge_point_id |-> IF data.chargepoint = <<>>
                         THEN default_charge_point_id(ids)
                         ELSE data.chargepoint[1],
     connector_id |-> IF data.connector = <<>>
                      THEN DefaultConnectorId
                      ELSE data.connector[1]]

\* Mutant: setting the mode also sets max_current.
ModifiedSettings_AlsoCurrent(service, data, settings) ==
    IF service = "set_max_current"
    THEN [settings EXCEPT !.max_current = data.max_current[1]]
    ELSE [settings EXCEPT !.mode = IF service = "enable" THEN "On" ELSE "Off",
                          !.max_current = 16]

\* set_connector_mode / set_connector_max_current between their two awaits:
\* the one field set on the settings fetched.
ModifiedSettings(service, data, settings) ==
    IF service = "set_max_current"
    THEN [settings EXCEPT !.max_current = data.max_current[1]]
    ELSE [settings EXCEPT !.mode = IF service = "enable" THEN "On" ELSE "Off"]

\* set_chargepoint_connector_settings at the vendor: the settings object
\* replaces the connector's settings.
VendorStore(v, settings) ==
    [v EXCEPT ![<<settings.charge_point_id, settings.connector_id>>] = settings]

Done(cs) == Cardinality({i \in 1..Len(cs) : cs[i].pc = "done"})

\* execute_service up to the first await: async_set_max_current without
\* max_current logs a warning and then reads the unbound local, which raises;
\* every other call issues get_chargepoint_connector_settings for its target.
ServiceCall(service, data) ==
    /\ services
    /\ Len(calls) < MaxCalls
    /\ service = "set_max_current" \/ data.max_current = <<>>
    /\ LET t == ServiceTarget(data, charge_point_ids)
           malformed == service = "set_max_current" /\ data.max_current = <<>>
       IN  calls' = Append(calls,
                [service |-> service, data |-> data,
                 charge_point_id |-> t.charge_point_id,
                 connector_id |-> t.connector_id,
                 pc |-> IF malformed THEN "raised" ELSE "fetching",
                 fetched |-> <<>>, settings |-> <<>>, seen |-> 0, order |-> 0])
    /\ UNCHANGED <<now, setupVars, cacheVars, throttle, trig, fetchCount,
                   errors, entityVars, vendor, seen>>

\* The vendor answers the settings fetch: the field is set and
\* set_chargepoint_connector_settings is issued.
SettingsFetched(i) ==
    /\ calls[i].pc = "fetching"
    /\ <<calls[i].charge_point_id, calls[i].connector_id>> \in DOMAIN vendor
    /\ LET got == vendor[<<calls[i].charge_point_id, calls[i].connector_id>>]
       IN  calls' = [calls EXCEPT
                ![i].pc = "pushing",
                ![i].fetched = <<got>>,
                ![i].settings = <<ModifiedSettings(calls[i].service, calls[i].data, got)>>,
                ![i].seen = Done(calls)]
    /\ UNCHANGED <<now, setupVars, cacheVars, throttle, trig, fetchCount,
                   errors, entityVars, vendor, seen>>

\* Mutant: the service catches the failure of a vendor call and returns.
VendorCallFails_Caught(i) ==
    /\ calls[i].pc \in {"fetching", "pushing"}
    /\ calls' = [calls EXCEPT ![i].pc = "done", ![i].order = Done(calls) + 1]
    /\ UNCHANGED <<now, setupVars, cacheVars, throttle, trig, fetchCount,
                   errors, entityVars, vendor, seen>>

\* A vendor call of the service raises (the fetch, also for a connector the
\* vendor does not know, or the push): nothing catches it.
VendorCallFails(i) ==
    /\ calls[i].pc \in {"fetching", "pushing"}
    /\ calls' = [calls EXCEPT ![i].pc = "raised"]
    /\ UNCHANGED <<now, setupVars, cacheVars, throttle, trig, fetchCount,
                   errors, entityVars, vendor, seen>>

\* Mutant: the push sets the field on the settings the vendor holds now.
SettingsPushed_Guarded(i) ==
    /\ calls[i].pc = "pushing"
    /\ LET k == <<calls[i].charge_point_id, calls[i].connector_id>>
           fresh == ModifiedSettings(calls[i].service, calls[i].data, vendor[k])
       IN  /\ vendor' = VendorStore(vendor, fresh)
           /\ calls' = [calls EXCEPT ![i].pc = "done", ![i].order = Done(calls) + 1,
                                      ![i].settings = <<fresh>>]
    /\ UNCHANGED <<now, setupVars, cacheVars, throttle, trig, fetchCount,
                   errors, entityVars, seen>>

\* The vendor stores the settings pushed and answers.
SettingsPushed(i) ==
    /\ calls[i].pc = "pushing"
    /\ vendor' = VendorStore(vendor, calls[i].settings[1])
    /\ calls' = [calls EXCEPT ![i].pc = "done", ![i].order = Done(calls) + 1]
    /\ UNCHANGED <<now, setupVars, cacheVars, throttle, trig, fetchCount,
                   errors, entityVars, seen>>

\* Setup, the update_data calls of the tasks and the clock.  Any
\* configuration, any failure of a vendor call of the setup; update_info is
\* answered with the whole account, in either order.
Next ==
    \/ \E dom \in BOOLEAN, cfg \in Opt(IdLists) : SetupBegin(dom, cfg)
    \/ \E ok \in BOOLEAN : ValidationReturns(ok)
    \/ \E disc \in Opt(IdLists) : DiscoveryReturns(disc)
    \/ \E upd \in Opt(Perms(CPs)) : UpdateInfoReturns(upd)
    \/ PlatformSetup
    \/ \E e \in callers : UpdateDue(e)
    \/ \E e \in callers : UpdateStart(e)
    \/ \E e \in callers : UpdateThrottled(e)
    \/ \E e \in callers : FetchSucceeds(e)
    \/ \E e \in callers : FetchFails(e)
    \/ Tick

Spec == Init /\ [][Next]_vars

\* Setup and the services.  Any configuration; the vendor answers the calls
\* of the setup, with the whole account in either order where it lists it.
NextCtl ==
    \/ \E dom \in BOOLEAN, cfg \in Opt(IdLists) : SetupBegin(dom, cfg)
    \/ ValidationReturns(TRUE)
    \/ \E disc \in Opt(Perms(CPs)) : DiscoveryReturns(disc)
    \/ \E upd \in Opt(Perms(CPs)) : UpdateInfoReturns(upd)
    \/ PlatformSetup
    \/ \E service \in Services, data \in CallData : ServiceCall(service, data)
    \/ \E i \in 1..Len(calls) : SettingsFetched(i)
    \/ \E i \in 1..Len(calls) : VendorCallFails(i)
    \/ \E i \in 1..Len(calls) : SettingsPushed(i)

\* No task calls update_data in these runs.
InitCtl == Started({})

SpecCtl == InitCtl /\ [][NextCtl]_vars

\* ------------------------------------------- the power sensor on its inputs
\* The per-phase measurements a connector status may carry: one phase or
\* three, integer amps and volts on each.
Amps == {-1, 0, 10}
Volts == {0, 230}
PhaseNames == <<"L1", "L2", "L3">>
MeasurementInputs ==
    UNION {{[i \in 1..n |-> [phase |-> PhaseNames[i], current |-> c[i], voltage |-> v[i]]] :
                c \in [1..n -> Amps], v \in [1..n -> Volts]} : n \in {1, 3}}

\* A is the tracked charge point and the platform setup has run; the power
\* sensor of its connector 1 has been constructed and has run its first
\* async_update at time 0.  The vendor call of update_data raised
\* (first = <<>>: the error was logged and nothing is cached), or it answered
\* a status of A carrying the measurements first[1], which update_data
\* cached.  The sensor then ran on.
InitPower ==
    \E first \in Opt(MeasurementInputs) :
        LET ids == <<"A">>
            inf == UpdateInfo(EmptyDict, ids, ids)
            cs == [ConnectorStatus("A", 1, 2, 1) EXCEPT
                     !.measurements = IF first = <<>> THEN <<>> ELSE first[1]]
            status == [id |-> "A", connector_statuses |-> <<cs>>, fetch |-> 1]
            c == IF first = <<>>
                 THEN FailedStore(EmptyDict, EmptyDict, "A")
                 ELSE StoreStatus(EmptyDict, EmptyDict, "A", status)
            reader == [kind |-> "power", cp |-> "A", conn |-> 1]
            r == EntityRead(inf, c.chargepoint, c.connector, reader, <<>>, EmptyDict, FALSE)
            built == {e \in PolledPower : EntityConstructs(e.kind)}
        IN  /\ now = 0
            /\ setup = "ok"
            /\ checking = 0
            /\ charge_point_ids = ids
            /\ handler = TRUE
            /\ services = TRUE
            /\ platform = "raised"
            /\ entities = {}
            /\ validated = {"A"}
            /\ info = inf
            /\ chargepoint = c.chargepoint
            /\ connector = c.connector
            /\ throttle = ThrottleStamp(EmptyDict, ThrottleHost(HandlerHost, "A"), 0)
            /\ trig = <<[cp |-> "A", at |-> 0]>>
            /\ fetchCount = 1
            /\ errors = IF first = <<>> THEN 1 ELSE 0
            /\ callers = built
            /\ pc = [e \in built |-> r.pc]
            /\ awaiting = [e \in built |-> 0]
            /\ atCall = [e \in built |-> <<>>]
            /\ st = [e \in built |-> r.st]
            /\ attrs = [e \in built |-> r.attrs]
            /\ interviewed = [e \in built |-> r.interviewed]
            /\ vendor = VendorInit
            /\ calls = <<>>
            /\ seen = <<>>

\* The sensor is updated again and again, and time passes.
NextPower ==
    \/ \E e \in callers : UpdateDue(e)
    \/ \E e \in callers : UpdateStart(e)
    \/ \E e \in callers : UpdateThrottled(e)
    \/ \E e \in callers : FetchSucceeds(e)
    \/ \E e \in callers : FetchFails(e)
    \/ Tick

SpecPower == InitPower /\ [][NextPower]_vars

\* ------------------------------------------------- updates without an end
\* The callers of the unbounded runs: one power sensor per charge point, each
\* built by a direct call of ChargeampsPowerSensor.
PolledLive ==
    {[kind |-> "power", cp |-> "A", conn |-> 1],
     [kind |-> "power", cp |-> "B", conn |-> 1]}

\* async_setup has discovered the charge points ids and returned True, the
\* platform setup has run (and added no entity), and the callers cs hold the
\* handler; none has called yet.
Polling(ids, cs) ==
    /\ now = 0
    /\ setup = "ok"
    /\ checking = 0
    /\ charge_point_ids = ids
    /\ handler = TRUE
    /\ services = TRUE
    /\ platform = "raised"
    /\ entities = {}
    /\ validated = Range(ids)
    /\ info = UpdateInfo(EmptyDict, ids, ids)
    /\ chargepoint = EmptyDict
    /\ connector = EmptyDict
    /\ throttle = EmptyDict
    /\ trig = <<>>
    /\ fetchCount = 0
    /\ errors = 0
    /\ callers = cs
    /\ pc = [e \in cs |-> "new"]
    /\ awaiting = [e \in cs |-> 0]
    /\ atCall = [e \in cs |-> <<>>]
    /\ st = [e \in cs |-> <<>>]
    /\ attrs = [e \in cs |-> EmptyDict]
    /\ interviewed = [e \in cs |-> FALSE]
    /\ vendor = VendorInit
    /\ calls = <<>>
    /\ seen = <<>>

\* A and B discovered, the two power sensors constructed.
InitLive ==
    Polling(<<"A", "B">>, {e \in PolledLive : EntityConstructs(e.kind)})

\* UpdateStart in a run without an end: the fetches are numbered up to
\* MaxFetches, which stands for every later fetch too, and the history of the
\* cache at the call is not kept.
PollStart(e) ==
    /\ MayCall(e)
    /\ ThrottlePasses(throttle, ThrottleHost(HandlerHost, e.cp), now)
    /\ throttle' = ThrottleStamp(throttle, ThrottleHost(HandlerHost, e.cp), now)
    /\ trig' = <<[cp |-> e.cp, at |-> now]>>
    /\ fetchCount' = IF fetchCount < MaxFetches THEN fetchCount + 1 ELSE fetchCount
    /\ pc' = [pc EXCEPT ![e] = "fetching"]
    /\ awaiting' = [awaiting EXCEPT ![e] = fetchCount']
    /\ UNCHANGED <<now, setupVars, cacheVars, errors, callers, atCall, st, attrs,
                   interviewed, ctlVars, seen>>

\* The origin of the clock moves to the time of the last call let through,
\* when the clock has come to MaxTime.  Throttle reads the clock only against
\* its stamp, and the step leaves now - stamp as it is; at MaxTime with the
\* stamp at 0 the interval is past, and MaxTime stands for any later time.
Rebase ==
    /\ trig # <<>>
    /\ trig[1].at > 0
    /\ now + TickStep > MaxTime
    /\ now' = now - trig[1].at
    /\ throttle' = ThrottleStamp(throttle, ThrottleHost(HandlerHost, trig[1].cp), 0)
    /\ trig' = <<[cp |-> trig[1].cp, at |-> 0]>>
    /\ UNCHANGED <<setupVars, cacheVars, fetchCount, errors, entityVars, ctlVars, seen>>

\* Every sensor is updated again and again, the vendor answers or fails (a
\* bounded number of times), and time passes.
NextLive ==
    \/ \E e \in callers : UpdateDue(e)
    \/ \E e \in callers : PollStart(e)
    \/ \E e \in callers : UpdateThrottled(e)
    \/ \E e \in callers : FetchSucceeds(e)
    \/ \E e \in callers : errors < MaxFetches /\ FetchFails(e)
    \/ Tick
    \/ Rebase

\* Every sensor comes due again, a sensor that is due is updated, a fetch
\* awaited is answered, and the clock advances.
SpecLive ==
    /\ InitLive
    /\ [][NextLive]_vars
    /\ \A e \in PolledLive :
        /\ WF_vars(UpdateDue(e))
        /\ WF_vars(PollStart(e) \/ UpdateThrottled(e))
        /\ WF_vars(FetchSucceeds(e))
    /\ WF_vars(Tick)
    /\ WF_vars(Rebase)

\* ------------------------------------------------------ reads of the cache
\* A task of the event loop reads the cache for a charge point: the status
\* hass.data holds for it and, as get_connector_status does, the entry of
\* each connector id.  It runs between two steps of the other tasks, as the
\* read of an adapter would.
Read(cp) ==
    /\ setup = "ok"
    /\ handler
    /\ seen' = <<[cp |-> cp,
                  status |-> Get(chargepoint, cp),
                  connector |-> [c \in ConnectorIds |->
                                    get_connector_status(connector, cp, c)]]>>
    /\ UNCHANGED <<now, setupVars, cacheVars, throttle, trig, fetchCount, errors,
                   entityVars, ctlVars>>

\* A and B discovered; the tasks call update_data and the cache is read, in
\* any order.
InitRead == Polling(<<"A", "B">>, Callers)

NextRead ==
    \/ \E e \in callers : UpdateDue(e)
    \/ \E e \in callers : UpdateStart(e)
    \/ \E e \in callers : UpdateThrottled(e)
    \/ \E e \in callers : FetchSucceeds(e)
    \/ \E e \in callers : FetchFails(e)
    \/ \E cp \in CPs : Read(cp)
    \/ Tick

SpecRead == InitRead /\ [][NextRead]_vars

\* ------------------------------------------------- every writer of the data
\* The task of the runs with every operation: it awaits update_data("A").
CallersInfo ==
    {[kind |-> "call", cp |-> "A", conn |-> 1]}

\* The data of the service calls of these runs: no charge point and no
\* connector named, 16 A for set_max_current.
DefaultCall(service) ==
    [chargepoint |-> <<>>, connector |-> <<>>,
     max_current |-> IF service = "set_max_current" THEN <<16>> ELSE <<>>]

InitInfo == Started(CallersInfo)

\* Setup with any list configured and any part of the account answered by
\* update_info, the platform setup, the construction and the updates of a
\* power sensor, the update_data calls of a task, and one service call of
\* any of the three services.  The clock stands still: the first
\* update_data call is let through and the later ones are throttled.
NextInfo ==
    \/ \E cfg \in Opt(IdLists) : SetupBegin(TRUE, cfg)
    \/ ValidationReturns(TRUE)
    \/ \E disc \in Opt(Perms(CPs)) : DiscoveryReturns(disc)
    \/ \E upd \in Opt(IdLists) : UpdateInfoReturns(upd)
    \/ PlatformSetup
    \/ \E e \in PolledPower : Construct(e)
    \/ \E e \in callers : UpdateDue(e)
    \/ \E e \in callers : UpdateStart(e)
    \/ \E e \in callers : UpdateThrottled(e)
    \/ \E e \in callers : FetchSucceeds(e)
    \/ \E e \in callers : FetchFails(e)
    \/ \E service \in Services : calls = <<>> /\ ServiceCall(service, DefaultCall(service))
    \/ \E i \in 1..Len(calls) : SettingsFetched(i)
    \/ \E i \in 1..Len(calls) : VendorCallFails(i)
    \/ \E i \in 1..Len(calls) : SettingsPushed(i)

SpecInfo == InitInfo /\ [][NextInfo]_vars

\* =================================================================== claims
\* The throttle window: a call was let through at most 30 s ago.
InWindow == trig # <<>> /\ now - trig[1].at <= MIN_TIME_BETWEEN_UPDATES

\* The fetch issued by the call that opened the window still awaits its answer.
OpenerPending == \E e \in callers : pc[e] = "fetching" /\ awaiting[e] = fetchCount

\* A step in which the vendor call awaited by e returns or raises.
FetchReturns(e) == pc[e] = "fetching" /\ pc'[e] # "fetching"

\* A step in which e calls update_data.
CallBy(e) == pc[e] \in {"new", "due"} /\ pc'[e] # pc[e]

\* Cache maps without the identities of the response objects.
Content(status) ==
    [status |-> status.status,
     total_consumption_kwh |-> status.total_consumption_kwh,
     measurements |-> status.measurements]
ContentOf(cpm, conn) ==
    [chargepoint |-> [cp \in DOMAIN cpm |->
                        [i \in 1..Len(cpm[cp].connector_statuses) |->
                            Content(cpm[cp].connector_statuses[i])]],
     connector |-> [k \in DOMAIN conn |-> Content(conn[k])]]
CacheContent == ContentOf(chargepoint, connector)

\* C1 as stated, the window read as beginning once the refresh that opened it
\* has completed: from then until the window ends no fetch is issued and the
\* cache content stays what it was.
C1_Original ==
    [][(InWindow /\ InWindow' /\ ~OpenerPending)
        => (fetchCount' = fetchCount /\ CacheContent' = CacheContent)]_vars

\* C1 (amended): inside the throttle window no update_data call issues a
\* vendor fetch, and none changes the cache: the chargepoint and connector
\* maps change inside the window only in a step in which a fetch issued by a
\* call that was let through returns.
C1_ThrottledCallsAreNoOps ==
    [][InWindow =>
        /\ fetchCount' = fetchCount
        /\ (cacheVars' # cacheVars => \E e \in callers : FetchReturns(e))]_vars

\* A caller has made a whole update_data call inside the window opened by
\* the only call let through so far, whose fetch still awaits.
C1_Witness ==
    /\ InWindow
    /\ fetchCount = 1
    /\ \E e, o \in callers : pc[o] = "fetching" /\ pc[e] \in {"done", "raised"}

C3_Original ==
    \A cp \in DOMAIN chargepoint :
        \A k \in DOMAIN connector :
            k[1] = cp => connector[k].fetch = chargepoint[cp].fetch

\* C3 (amended): a successful refresh of a charge point stores, for every
\* connector its response lists, that response's connector status; the entry
\* of a connector the response does not list is neither removed nor changed
\* (it survives from the earlier fetch), as is every entry of another charge
\* point.
C3_RefreshStoresListed ==
    [][\A cp \in DOMAIN chargepoint' :
        (cp \notin DOMAIN chargepoint \/ chargepoint'[cp] # chargepoint[cp])
        => LET new == chargepoint'[cp].connector_statuses
               listed == {new[i].connector_id : i \in 1..Len(new)}
           IN  /\ \A i \in 1..Len(new) :
                    /\ <<cp, new[i].connector_id>> \in DOMAIN connector'
                    /\ connector'[<<cp, new[i].connector_id>>] = new[i]
                    /\ new[i].fetch = chargepoint'[cp].fetch
               /\ \A k \in DOMAIN connector' :
                    (k[1] # cp \/ k[2] \notin listed)
                    => (k \in DOMAIN connector /\ connector'[k] = connector[k])]_vars

\* A refresh of A listed fewer connectors than are cached for A: an entry of
\* an earlier fetch is still there.
C3_Witness ==
    /\ "A" \in DOMAIN chargepoint
    /\ Len(chargepoint["A"].connector_statuses) = 1
    /\ \E k \in DOMAIN connector :
        k[1] = "A" /\ connector[k].fetch # chargepoint["A"].fetch

\* C4: less than 30 s after an update_data call for one charge point was let
\* through, an update_data call for another charge point issues no vendor
\* fetch (the caller does not come to await one) and changes no cache entry
\* of its charge point.
C4_SharedThrottle ==
    [][\A e \in callers :
        (/\ trig # <<>>
         /\ now - trig[1].at < MIN_TIME_BETWEEN_UPDATES
         /\ e.cp # trig[1].cp
         /\ CallBy(e))
        => /\ fetchCount' = fetchCount
           /\ pc'[e] # "fetching"
           /\ (e.cp \in DOMAIN chargepoint' <=> e.cp \in DOMAIN chargepoint)
           /\ (e.cp \in DOMAIN chargepoint => chargepoint'[e.cp] = chargepoint[e.cp])
           /\ \A k \in DOMAIN connector' :
                k[1] = e.cp => (k \in DOMAIN connector /\ connector'[k] = connector[k])]_vars

\* The task of B has made a whole update_data call less than 30 s after the
\* only call let through so far, which was for A.
C4_Witness ==
    /\ fetchCount = 1
    /\ trig # <<>>
    /\ trig[1].cp = "A"
    /\ now - trig[1].at < MIN_TIME_BETWEEN_UPDATES
    /\ \E e \in callers : e.cp = "B" /\ pc[e] = "done"

\* C5: whatever a task reads from the cache between two steps of the event
\* loop is whole: if it reads a ChargePointStatus for a charge point, then
\* for every connector that status lists it reads, under (charge point id,
\* connector id), that very connector status.  It never reads a new status
\* with a part of its connector entries still those of an earlier one, or
\* missing.
C5_NoTornReads ==
    seen # <<>> =>
        LET r == seen[1]
        IN  r.status # <<>> =>
                \A i \in 1..Len(r.status[1].connector_statuses) :
                    LET cs == r.status[1].connector_statuses[i]
                    IN  r.connector[cs.connector_id] = <<cs>>

\* Two refreshes of A have been stored and the cache has been read since:
\* the read got the status of the second refresh, which lists both
\* connectors, and no entry of the first.
C5_Witness ==
    /\ fetchCount = 2
    /\ errors = 0
    /\ \A e \in callers : pc[e] # "fetching"
    /\ DOMAIN chargepoint = {"A"}
    /\ seen # <<>>
    /\ seen[1].cp = "A"
    /\ seen[1].status # <<>>
    /\ seen[1].status[1].fetch = 2
    /\ Len(seen[1].status[1].connector_statuses) = 2
    /\ \A c \in ConnectorIds : seen[1].connector[c] # <<>> /\ seen[1].connector[c][1].fetch = 2

\* C7 as stated: async_setup does not complete successfully with a tracked id
\* whose validation failed.
C7_Original ==
    setup = "ok" => Range(charge_point_ids) \subseteq validated

\* C8 as stated: a call is a no-op only if a refresh has succeeded less than
\* 30 s before.  With a failed attempt logged, nothing ever cached and no
\* fetch awaited, no refresh has succeeded, so the next call is let through.
C8_Original ==
    (/\ setup = "ok"
     /\ errors > 0
     /\ DOMAIN chargepoint = {}
     /\ \A e \in callers : pc[e] # "fetching")
    => ThrottlePasses(throttle, ThrottleHost(HandlerHost, "A"), now)

\* C8 (amended): the interval is measured from the last update_data call that
\* Throttle let through, whether its refresh succeeded, failed or still
\* awaits: a call for any charge point is a no-op exactly while at most 30 s
\* have passed since that call.
C8_MeasuredFromLastAttempt ==
    \A cp \in CPs :
        ThrottlePasses(throttle, ThrottleHost(HandlerHost, cp), now)
        <=> (trig = <<>> \/ now - trig[1].at > MIN_TIME_BETWEEN_UPDATES)

\* The only refresh attempted has failed, nothing is cached, and calls are
\* no-ops.
C8_Witness ==
    /\ errors = 1
    /\ fetchCount = 1
    /\ DOMAIN chargepoint = {}
    /\ \A e \in callers : pc[e] # "fetching"
    /\ ~ThrottlePasses(throttle, ThrottleHost(HandlerHost, "A"), now)

\* C10 as stated: a ChargeampsPowerSensor whose update cycle found nothing
\* cached for its connector has completed the cycle and shows state 0 and an
\* empty active_phase.
C10_Original ==
    \A e \in callers :
        (/\ e.kind = "power"
         /\ pc[e] \in {"done", "raised"}
         /\ <<e.cp, e.conn>> \notin DOMAIN connector)
        => /\ pc[e] = "done"
           /\ st[e] = <<0>>
           /\ "active_phase" \in DOMAIN attrs[e]
           /\ attrs[e]["active_phase"] = ""

\* The field a service sets.
FieldOf(service) == IF service = "set_max_current" THEN "max_current" ELSE "mode"

\* Calls i and j have both completed on the same connector, both fetched the
\* settings before any push, i pushed first, and no later push followed j's.
Interleaved(i, j) ==
    /\ i # j
    /\ calls[i].pc = "done" /\ calls[j].pc = "done"
    /\ calls[i].charge_point_id = calls[j].charge_point_id
    /\ calls[i].connector_id = calls[j].connector_id
    /\ calls[i].seen = 0 /\ calls[j].seen = 0
    /\ calls[i].order < calls[j].order
    /\ \A m \in 1..Len(calls) :
        (calls[m].pc = "done" /\ calls[m].charge_point_id = calls[j].charge_point_id
         /\ calls[m].connector_id = calls[j].connector_id)
        => calls[m].order <= calls[j].order

\* C6: when two commands on one connector have both fetched the settings
\* before either pushed, both complete, and the vendor then holds the
\* settings of the later push, which carry the values it fetched in every
\* field but its own: the field the earlier command set is back at its old
\* value (its change is lost) unless the later command set the same field.
C6_LostUpdate ==
    \A i, j \in 1..Len(calls) :
        Interleaved(i, j)
        => LET k == <<calls[j].charge_point_id, calls[j].connector_id>>
           IN  /\ vendor[k] = calls[j].settings[1]
               /\ FieldOf(calls[i].service) # FieldOf(calls[j].service)
                    => /\ vendor[k].mode # calls[i].settings[1].mode
                          \/ vendor[k].max_current # calls[i].settings[1].max_current
                       /\ FieldOf(calls[i].service) = "mode"
                            => vendor[k].mode = calls[i].fetched[1].mode
                       /\ FieldOf(calls[i].service) = "max_current"
                            => vendor[k].max_current = calls[i].fetched[1].max_current

\* An enable and a set_max_current of 16 A on one connector interleaved: both
\* completed, and the connector is still "Off", at 16 A.
C6_Witness ==
    \E i, j \in 1..Len(calls) :
        /\ Interleaved(i, j)
        /\ calls[i].service = "enable"
        /\ calls[j].service = "set_max_current"
        /\ vendor[<<calls[j].charge_point_id, calls[j].connector_id>>].mode = "Off"
        /\ vendor[<<calls[j].charge_point_id, calls[j].connector_id>>].max_current = 16

\* C9: the settings a service call fetches, sets a field of and pushes are
\* those of the charge point its data names, or of the first tracked charge
\* point when it names none, and of the connector its data names, or of
\* connector 1 when it names none; a completed call left its settings at
\* that connector of the vendor.
C9_ServiceDefaults ==
    \A i \in 1..Len(calls) :
        LET d == calls[i].data
            cp == IF d.chargepoint = <<>> THEN charge_point_ids[1] ELSE d.chargepoint[1]
            c == IF d.connector = <<>> THEN 1 ELSE d.connector[1]
        IN  /\ calls[i].pc \in {"fetching", "pushing", "done"}
              => (calls[i].charge_point_id = cp /\ calls[i].connector_id = c)
            /\ calls[i].fetched # <<>>
              => (calls[i].fetched[1].charge_point_id = cp
                  /\ calls[i].fetched[1].connector_id = c
                  /\ calls[i].settings[1].charge_point_id = cp
                  /\ calls[i].settings[1].connector_id = c)
            /\ (calls[i].pc = "done" /\ calls[i].order = Done(calls))
              => vendor[<<cp, c>>] = calls[i].settings[1]

\* With B listed first, an enable call naming neither charge point nor
\* connector has completed and connector 1 of B is "On"; a call naming A and
\* connector 2 has completed too.
C9_Witness ==
    /\ charge_point_ids = <<"B", "A">>
    /\ vendor[<<"B", 1>>].mode = "On"
    /\ \E i, j \in 1..Len(calls) :
        /\ calls[i].service = "enable" /\ calls[i].pc = "done"
        /\ calls[i].data.chargepoint = <<>> /\ calls[i].data.connector = <<>>
        /\ calls[j].pc = "done"
        /\ calls[j].data.chargepoint = <<"A">> /\ calls[j].data.connector = <<2>>

\* A step in which e ends an update cycle: what it runs after update_data
\* has returned.
Reads(e) == (FetchReturns(e) \/ CallBy(e)) /\ pc'[e] \in {"done", "raised"}

\* C11 as stated: a power sensor that ends an update cycle with measurements
\* cached for its connector completes it and shows as state the sum over the
\* phases of current * voltage, and an active_phase label.
C11_Original ==
    [][\A e \in callers :
        (/\ e.kind = "power"
         /\ Reads(e)
         /\ <<e.cp, e.conn>> \in DOMAIN connector'
         /\ connector'[<<e.cp, e.conn>>].measurements # <<>>)
        => LET ms == connector'[<<e.cp, e.conn>>].measurements
               total[i \in 0..Len(ms)] ==
                   IF i = 0 THEN 0 ELSE total[i - 1] + ms[i].current * ms[i].voltage
           IN  /\ pc'[e] = "done"
               /\ st'[e] = <<total[Len(ms)]>>
               /\ "active_phase" \in DOMAIN attrs'[e]]_vars

C13_ErrorsPropagate ==
    [][/\ \A i \in 1..Len(calls) :
            LET k == <<calls[i].charge_point_id, calls[i].connector_id>>
            IN  /\ (calls[i].pc = "fetching" /\ calls'[i].pc # "fetching")
                     => \/ /\ calls'[i].pc = "pushing"
                           /\ calls'[i].fetched = <<vendor[k]>>
                        \/ /\ calls'[i].pc = "raised"
                           /\ calls'[i].fetched = <<>>
                           /\ calls'[i].settings = <<>>
                           /\ vendor' = vendor
                /\ (calls[i].pc = "pushing" /\ calls'[i].pc # "pushing")
                     => \/ /\ calls'[i].pc = "done"
                           /\ vendor'[k] = calls[i].settings[1]
                        \/ /\ calls'[i].pc = "raised"
                           /\ vendor' = vendor
                /\ calls[i].pc = "raised" => calls'[i] = calls[i]
       /\ vendor' # vendor
            => \E i \in 1..Len(calls) :
                    /\ calls[i].pc = "pushing"
                    /\ calls[i].fetched # <<>>
                    /\ calls'[i].pc = "done"]_vars

\* Two enable calls on one connector have raised, one at its fetch and one at
\* its push: the connector is still "Off".
C13_Witness ==
    \E i, j \in 1..Len(calls) :
        /\ calls[i].service = "enable" /\ calls[j].service = "enable"
        /\ calls[i].charge_point_id = calls[j].charge_point_id
        /\ calls[i].connector_id = calls[j].connector_id
        /\ calls[i].pc = "raised" /\ calls[i].fetched = <<>>
        /\ calls[j].pc = "raised" /\ calls[j].fetched # <<>>
        /\ calls[j].settings[1].mode = "On"
        /\ vendor[<<calls[j].charge_point_id, calls[j].connector_id>>].mode = "Off"

\* C14: the info cache holds entries only for tracked charge-point ids, each
\* the ChargePoint of its id, and no step but the return of update_info's
\* vendor call adds, removes or changes an entry: not an update_data call
\* let through or throttled, not the return of its fetch, not a step of an
\* enable, disable or set_max_current call, not the construction or the
\* update of a sensor, not the platform setup.
C14_InfoFilteredAndFrozen ==
    [][/\ DOMAIN info' \subseteq Range(charge_point_ids')
       /\ \A cp \in DOMAIN info' : info'[cp].id = cp
       /\ setup # "updating" => info' = info]_vars

\* Only A is tracked; its info is cached and nothing else.  Since then a
\* refresh of A has been stored, the task and the power sensor have each
\* ended an update, and a service call has completed at the vendor.
C14_Witness ==
    /\ setup = "ok"
    /\ charge_point_ids = <<"A">>
    /\ DOMAIN info = {"A"}
    /\ info["A"] = ChargePointInfo("A")
    /\ "A" \in DOMAIN chargepoint
    /\ \E e \in callers : e.kind = "call" /\ pc[e] = "done"
    /\ \E e \in callers : e.kind = "power" /\ pc[e] = "raised"
    /\ calls # <<>>
    /\ calls[1].pc = "done"
    /\ vendor # VendorInit

\* C15 as stated: with A and B tracked and their sensors updated for ever,
\* either some vendor call fails or the cached status of each charge point is
\* written by a returning fetch again and again.
C15_Original ==
    \/ <>(errors > 0)
    \/ \A cp \in CPs :
         []<><<\E e \in callers :
                 e.cp = cp /\ FetchReturns(e) /\ errors' = errors>>_vars

\* C16 as stated: when every fetch issued has been answered, the cached
\* status of the charge point the last fetch was issued for is the response
\* to that fetch, also when an earlier fetch for it was answered after it.
C16_Original ==
    (/\ trig # <<>>
     /\ fetchCount > 0
     /\ errors = 0
     /\ \A e \in callers : pc[e] # "fetching")
    => /\ trig[1].cp \in DOMAIN chargepoint
       /\ chargepoint[trig[1].cp].fetch = fetchCount

\* C17: in every state between two steps of the event loop, each connector
\* status listed in a cached ChargePointStatus is in the connector map under
\* (charge point id, connector id), and is that very connector status; this
\* also after a response that lists a part of the connectors and after
\* responses stored out of the order of their fetches.
C17_MapsAgree ==
    \A cp \in DOMAIN chargepoint :
        LET listed == chargepoint[cp].connector_statuses
        IN  \A i \in 1..Len(listed) :
                /\ listed[i].charge_point_id = cp
                /\ get_connector_status(connector, cp, listed[i].connector_id)
                     = <<listed[i]>>

\* Two fetches for A were answered out of their order: the status cached for
\* A is the response to the earlier one and lists one connector, and the
\* connector map still holds an entry of the later one for the other.
C17_Witness ==
    /\ "A" \in DOMAIN chargepoint
    /\ Len(chargepoint["A"].connector_statuses) = 1
    /\ \A e \in callers : pc[e] # "fetching"
    /\ \E k \in DOMAIN connector :
        k[1] = "A" /\ connector[k].fetch > chargepoint["A"].fetch

\* A step in which call i completes its push, no call having completed
\* since it fetched the settings.
CompletesAlone(i) ==
    /\ calls[i].pc = "pushing"
    /\ calls'[i].pc = "done"
    /\ calls[i].seen = Done(calls)

\* C18: the push of an enable (disable) call that completes with no other
\* call completing between its fetch and its push leaves the targeted
\* connector at the vendor with mode "On" ("Off") and every other field,
\* max_current among them, as the call fetched it and as the vendor held it,
\* and leaves every other connector's settings as they were; no step of a
\* service call modifies the info, chargepoint or connector cache.
C18_EnableDisableFrame ==
    [][/\ \A i \in 1..Len(calls) :
            (CompletesAlone(i) /\ calls[i].service \in {"enable", "disable"})
            => LET k == <<calls[i].charge_point_id, calls[i].connector_id>>
                   mode == IF calls[i].service = "enable" THEN "On" ELSE "Off"
               IN  /\ vendor'[k].mode = mode
                   /\ vendor'[k].max_current = calls[i].fetched[1].max_current
                   /\ vendor'[k] = [vendor[k] EXCEPT !.mode = mode]
                   /\ DOMAIN vendor' = DOMAIN vendor
                   /\ \A o \in DOMAIN vendor \ {k} : vendor'[o] = vendor[o]
       /\ calls' # calls => (info' = info /\ cacheVars' = cacheVars)]_vars

\* A set_max_current of 16 A and then an enable have completed one after the
\* other on one connector: it is "On" at 16 A, and the other connectors are
\* "Off" at 6 A.
C18_Witness ==
    \E i, j \in 1..Len(calls) :
        LET k == <<calls[i].charge_point_id, calls[i].connector_id>>
        IN  /\ calls[j].service = "set_max_current" /\ calls[j].pc = "done"
            /\ calls[j].charge_point_id = k[1] /\ calls[j].connector_id = k[2]
            /\ calls[i].service = "enable" /\ calls[i].pc = "done"
            /\ calls[i].seen = 1 /\ calls[i].order = 2
            /\ calls[i].fetched[1].max_current = 16
            /\ vendor[k].mode = "On" /\ vendor[k].max_current = 16
            /\ \A o \in DOMAIN vendor \ {k} : vendor[o] = VendorInit[o]

====
